---- MODULE Spec2Model ----
(***************************************************************************)
(* Blog backend of server/models.py: the Author and Post models with       *)
(* their attribute validators, and the Flask route handlers over the       *)
(* authors and posts tables.                                                *)
(*                                                                         *)
(* Python values are tagged records: None is [t |-> "None"], a str is      *)
(* [t |-> "str", s |-> <<c1, ..., cn>>] with one element per character.    *)
(* A JSON object (the dict of request.get_json()) is a sequence of         *)
(* <<key, value>> pairs with distinct keys, in insertion order.            *)
(***************************************************************************)
EXTENDS Integers, Sequences, FiniteSets, TLC

VARIABLES
    authors,   \* committed rows of table authors
    posts,     \* committed rows of table posts
    thr,       \* per worker thread: the POST /authors request it is serving
    last,      \* the post request served last and its response
    vin,       \* a validator call: the validator and its argument
    vout       \* the outcome of that call

vars == <<authors, posts, thr, last, vin, vout>>

---------------------------------------------------------------------------
(* Bounds of the model *)

\* worker threads serving POST /authors concurrently
NumThreads == 2
\* largest primary key the model lets a table assign
MaxId == 2
\* characters added to or removed from a boundary-length string
MaxExtra == 1

---------------------------------------------------------------------------
(* Python values *)

None == [t |-> "None"]
Str(s) == [t |-> "str", s |-> s]
IsStr(v) == v.t = "str"

\* c * n
Rep(c, n) == [i \in 1..n |-> c]

\* bool(v) for None and str
Truthy(v) == IsStr(v) /\ Len(v.s) > 0

\* len(v) of a str
PyLen(v) == Len(v.s)

\* sub in s, for two sequences of characters
Contains(s, sub) ==
    \E i \in 0..(Len(s) - Len(sub)) :
        \A j \in 1..Len(sub) : s[i + j] = sub[j]

AsciiDigits == {"0", "1", "2", "3", "4", "5", "6", "7", "8", "9"}
\* characters outside ASCII whose str.isdigit() is true:
\* ARABIC-INDIC DIGIT THREE and SUPERSCRIPT TWO
UnicodeDigits == {"U+0663", "U+00B2"}
OtherChars == {"a", "-"}

\* c.isdigit() of one character
CharIsDigit(c) == c \in AsciiDigits \cup UnicodeDigits

\* v.isdigit(): every character is a digit and there is at least one
IsDigit(v) == Len(v.s) > 0 /\ \A i \in 1..Len(v.s) : CharIsDigit(v.s[i])

\* the outcome of a validator: the value returned, or the ValueError raised
Ok(v) == [raised |-> FALSE, value |-> v, msg |-> ""]
Raise(m) == [raised |-> TRUE, value |-> None, msg |-> m]

---------------------------------------------------------------------------
(* Program constants *)

PhoneLen == 10
MinContentLen == 250
MaxSummaryLen == 250

Clickbait ==
    << <<"W","o","n","'","t"," ","B","e","l","i","e","v","e">>,
       <<"S","e","c","r","e","t">>,
       <<"T","o","p">>,
       <<"G","u","e","s","s">> >>

Categories == {Str(<<"F","i","c","t","i","o","n">>),
               Str(<<"N","o","n","-","F","i","c","t","i","o","n">>)}

---------------------------------------------------------------------------
(* Validators *)

\* validate_name without the lookup of the name
validate_name_no_lookup(name, found) ==
    IF ~Truthy(name) THEN Raise("Name field is required.") ELSE Ok(name)

\* Author.validate_name, given the result of the lookup
\* Author.query.filter_by(name=name).first() is not None
validate_name(name, found) ==
    IF ~Truthy(name) THEN Raise("Name field is required.")
    ELSE IF found THEN Raise("Name must be unique.")
    ELSE Ok(name)

validate_phone_number(phone_number) ==
    IF Truthy(phone_number)
       /\ (PyLen(phone_number) # PhoneLen \/ ~IsDigit(phone_number))
    THEN Raise("Phone number must be 10 digits.")
    ELSE Ok(phone_number)

validate_title(title) ==
    IF ~Truthy(title) THEN Raise("Title field is required.")
    ELSE IF ~(\E k \in 1..Len(Clickbait) : Contains(title.s, Clickbait[k]))
    THEN Raise("Title must contain clickbait phrases.")
    ELSE Ok(title)

validate_content(content) ==
    IF Truthy(content) /\ PyLen(content) < MinContentLen
    THEN Raise("Post content must be at least 250 characters long.")
    ELSE Ok(content)

\* validate_summary with the bound off by one
validate_summary_off_by_one(summary) ==
    IF Truthy(summary) /\ PyLen(summary) > MaxSummaryLen + 1
    THEN Raise("Post summary must be at most 250 characters long.")
    ELSE Ok(summary)

validate_summary(summary) ==
    IF Truthy(summary) /\ PyLen(summary) > MaxSummaryLen
    THEN Raise("Post summary must be at most 250 characters long.")
    ELSE Ok(summary)

\* validate_category that lets an absent category through
validate_category_optional(category) ==
    IF Truthy(category) /\ category \notin Categories
    THEN Raise("Category must be 'Fiction' or 'Non-Fiction'.")
    ELSE Ok(category)

validate_category(category) ==
    IF category \notin Categories
    THEN Raise("Category must be 'Fiction' or 'Non-Fiction'.")
    ELSE Ok(category)

---------------------------------------------------------------------------
(* JSON objects: the dict returned by request.get_json() *)

\* k in data
HasKey(data, k) == \E i \in 1..Len(data) : data[i][1] = k

\* data[k], defined when k in data
Item(data, k) == data[CHOOSE i \in 1..Len(data) : data[i][1] = k][2]

\* data.get(k)
Get(data, k) == IF HasKey(data, k) THEN Item(data, k) ELSE None

---------------------------------------------------------------------------
(* Tables and responses *)

Ids(table) == {r.id : r \in table}

\* the key an INTEGER PRIMARY KEY column of SQLite gives a new row:
\* one more than the largest key in the table
NextId(table) ==
    IF table = {} THEN 1
    ELSE (CHOOSE i \in Ids(table) : \A j \in Ids(table) : j <= i) + 1

\* Post.query.get(id): the rows with that key (none or one)
QueryGet(table, id) == {r \in table : r.id = id}

\* Author.query.filter_by(name=name).first() is not None
NameTaken(table, name) == \E a \in table : a.name = name

Response(db, status, body, err, msg, n) ==
    [db |-> db, status |-> status, body |-> body, err |-> err, msg |-> msg,
     n |-> n]

\* an exception no handler catches: Flask answers 500, and the request's
\* session is removed with whatever it had not committed
Unhandled(db, err, msg, n) ==
    Response(db, 500, "Internal Server Error", err, msg, n)

NotFoundBody == "{\"error\": \"Post not found\"}"

\* return jsonify(obj.__dict__), status for a mapped instance, after n
\* changes: __dict__ holds the key _sa_instance_state, an InstanceState
\* object, which the JSON encoder of Flask cannot serialise, so jsonify
\* raises TypeError and the status is never sent
jsonify_dict(db, status, n) == Unhandled(db, "TypeError", "InstanceState", n)

---------------------------------------------------------------------------
(* Route handlers of the posts table.  db is [authors, posts], the         *)
(* committed tables; each handler gives the response and the tables the    *)
(* request leaves behind.                                                   *)

PostRow(id, title, content, category, summary) ==
    [id |-> id, title |-> title, content |-> content, category |-> category,
     summary |-> summary]

\* db.session.add(new_post); db.session.commit()
InsertPost(db, row) == [db EXCEPT !.posts = @ \cup {row}]

\* POST /posts
create_post(db, data) ==
    IF ~HasKey(data, "title") THEN Unhandled(db, "KeyError", "title", 0)
    ELSE
    LET title    == validate_title(Item(data, "title"))
        content  == validate_content(Get(data, "content"))
        category == validate_category(Get(data, "category"))
        summary  == validate_summary(Get(data, "summary"))
    IN  IF title.raised THEN Unhandled(db, "ValueError", title.msg, 0)
        ELSE IF content.raised THEN Unhandled(db, "ValueError", content.msg, 1)
        ELSE IF category.raised
        THEN Unhandled(db, "ValueError", category.msg, 2)
        ELSE IF summary.raised THEN Unhandled(db, "ValueError", summary.msg, 3)
        ELSE jsonify_dict(
                 InsertPost(db, PostRow(NextId(db.posts), title.value,
                                        content.value, category.value,
                                        summary.value)),
                 201, 4)

\* GET /posts/<id>
get_post(db, id) ==
    IF QueryGet(db.posts, id) = {}
    THEN Response(db, 404, NotFoundBody, "", "", 0)
    ELSE jsonify_dict(db, 200, 0)

\* the validator SQLAlchemy runs when attribute key of a Post is set
ValidatePostAttr(key, value) ==
    CASE key = "title"    -> validate_title(value)
      [] key = "content"  -> validate_content(value)
      [] key = "category" -> validate_category(value)
      [] key = "summary"  -> validate_summary(value)

\* for key, value in data.items(): setattr(post, key, value), from item i
\* on: the post object of the session after the loop, or as the first
\* ValueError leaves it, with the number n of items assigned
RECURSIVE SetAttrs(_, _, _)
SetAttrs(post, data, i) ==
    IF i > Len(data) THEN [post |-> post, raised |-> FALSE, msg |-> "", n |-> i - 1]
    ELSE LET v == ValidatePostAttr(data[i][1], data[i][2])
         IN  IF v.raised
             THEN [post |-> post, raised |-> TRUE, msg |-> v.msg, n |-> i - 1]
             ELSE SetAttrs([post EXCEPT ![data[i][1]] = v.value], data, i + 1)

\* a session that writes the assigned attributes through
RolledBackPartial(db, post) ==
    [db EXCEPT !.posts = {r \in @ : r.id # post.id} \cup {post}]

\* what a request that ends in an exception leaves of the changes its
\* session holds: nothing, the session never committed them
RolledBack(db, post) == db

\* db.session.commit() of the changed post
CommitPost(db, old, post) ==
    [db EXCEPT !.posts = (@ \ {old}) \cup {post}]

\* update_post that validates the body before it looks the post up
update_post_validates_first(db, id, data) ==
    IF \E i \in 1..Len(data) : ValidatePostAttr(data[i][1], data[i][2]).raised
    THEN Unhandled(db, "ValueError", "", 0)
    ELSE IF QueryGet(db.posts, id) = {}
    THEN Response(db, 404, NotFoundBody, "", "", 0)
    ELSE LET old == CHOOSE r \in QueryGet(db.posts, id) : TRUE
             set == SetAttrs(old, data, 1)
         IN  jsonify_dict(CommitPost(db, old, set.post), 200, set.n)

\* PATCH /posts/<id>
update_post(db, id, data) ==
    IF QueryGet(db.posts, id) = {}
    THEN Response(db, 404, NotFoundBody, "", "", 0)
    ELSE LET old == CHOOSE r \in QueryGet(db.posts, id) : TRUE
             set == SetAttrs(old, data, 1)
         IN  IF set.raised
             THEN Unhandled(RolledBack(db, set.post), "ValueError", set.msg, set.n)
             ELSE jsonify_dict(CommitPost(db, old, set.post), 200, set.n)

\* delete_post that answers 404 for a missing post, as get_post does
delete_post_missing_404(db, id) ==
    IF QueryGet(db.posts, id) = {}
    THEN Response(db, 404, NotFoundBody, "", "", 0)
    ELSE Response([db EXCEPT !.posts = @ \ QueryGet(db.posts, id)],
                  204, "", "", "", 1)

\* DELETE /posts/<id>
delete_post(db, id) ==
    IF QueryGet(db.posts, id) = {}
    THEN Response(db, 204, "", "", "", 0)
    ELSE Response([db EXCEPT !.posts = @ \ QueryGet(db.posts, id)],
                  204, "", "", "", 1)

---------------------------------------------------------------------------
(* Requests the model sends to the posts routes *)

S(n) == Str(Rep("a", n))
Fiction == Str(<<"F","i","c","t","i","o","n">>)
NonFiction == Str(<<"N","o","n","-","F","i","c","t","i","o","n">>)
Other == Str(<<"O","t","h","e","r">>)
Top == Str(Clickbait[3])
LowerTop == Str(<<"t","o","p">>)

\* a key the JSON object does not have
Absent == [t |-> "absent"]

TitleInputs == {Str(<<>>), LowerTop, Top}
ContentInputs == {None, S(MinContentLen - 1), S(MinContentLen)}
CategoryInputs == {None, Other, Fiction, NonFiction}
SummaryInputs == {None, S(MaxSummaryLen), S(MaxSummaryLen + 1)}

PostKeys == {"title", "content", "category", "summary"}

InputsOf(key) ==
    CASE key = "title"    -> TitleInputs
      [] key = "content"  -> ContentInputs
      [] key = "category" -> CategoryInputs
      [] key = "summary"  -> SummaryInputs

Member(k, v) == IF v = Absent THEN <<>> ELSE << <<k, v>> >>

\* bodies of POST /posts: each key present with one of its inputs, or absent
CreateBodies ==
    { Member("title", t) \o Member("content", c) \o Member("category", g)
          \o Member("summary", m) :
        t \in TitleInputs \cup {Absent},
        c \in (ContentInputs \ {None}) \cup {Absent},
        g \in (CategoryInputs \ {None}) \cup {Absent},
        m \in (SummaryInputs \ {None}) \cup {Absent} }

Items == UNION {{<<k, v>> : v \in InputsOf(k)} : k \in PostKeys}

\* items whose validator returns
Accepted == {it \in Items : ~ValidatePostAttr(it[1], it[2]).raised}

\* bodies of PATCH /posts/<id>: one item, or an accepted item followed by an
\* item of another key (the loop ends at the first item that raises, so a
\* body that starts with a rejected item acts as that item alone)
UpdateBodies ==
    {<<a>> : a \in Items}
    \cup {<<ab[1], ab[2]>> : ab \in {x \in Accepted \X Items : x[1][1] # x[2][1]}}

RequestIds == 1..MaxId

\* rows of table authors present before the first request
SeedAuthors ==
    {[id |-> 1, name |-> Str(<<"A","n","n">>), phone_number |-> None]}

DB == [authors |-> authors, posts |-> posts]

Idle == [op |-> "", status |-> 0, body |-> "", err |-> "", n |-> 0]

\* the request served and what its client and the server log saw of it
Served(op, r) ==
    [op |-> op, status |-> r.status, body |-> r.body, err |-> r.err, n |-> r.n]

\* a worker thread between requests
IdleThread == [pc |-> "idle", name |-> None, phone_number |-> None,
               status |-> 0, err |-> "", msg |-> ""]
NoThreads == [t \in 1..NumThreads |-> IdleThread]
NoCall == [fn |-> "", arg |-> None]
NotCalled == [raised |-> FALSE, value |-> None, msg |-> "not called"]

---------------------------------------------------------------------------
(* The posts routes, one request at a time *)

InitPosts ==
    /\ authors = SeedAuthors
    /\ posts = {}
    /\ last = Idle
    /\ thr = NoThreads
    /\ vin = NoCall
    /\ vout = NotCalled

CreatePost ==
    \E data \in CreateBodies :
        LET r == create_post(DB, data)
        IN  /\ \A p \in r.db.posts : p.id <= MaxId
            /\ posts' = r.db.posts
            /\ authors' = r.db.authors
            /\ last' = Served("POST", r)
            /\ UNCHANGED <<thr, vin, vout>>

GetPost ==
    \E id \in RequestIds :
        LET r == get_post(DB, id)
        IN  /\ posts' = r.db.posts
            /\ authors' = r.db.authors
            /\ last' = Served("GET", r)
            /\ UNCHANGED <<thr, vin, vout>>

UpdatePost ==
    \E id \in RequestIds, data \in UpdateBodies :
        LET r == update_post(DB, id, data)
        IN  /\ posts' = r.db.posts
            /\ authors' = r.db.authors
            /\ last' = Served("PATCH", r)
            /\ UNCHANGED <<thr, vin, vout>>

DeletePost ==
    \E id \in RequestIds :
        LET r == delete_post(DB, id)
        IN  /\ posts' = r.db.posts
            /\ authors' = r.db.authors
            /\ last' = Served("DELETE", r)
            /\ UNCHANGED <<thr, vin, vout>>

NextPosts == CreatePost \/ GetPost \/ UpdatePost \/ DeletePost

SpecPosts == InitPosts /\ [][NextPosts]_vars

---------------------------------------------------------------------------
(* POST /authors, served by concurrent worker threads.  Each thread has    *)
(* its own session; the lookup of validate_name and the INSERT of commit   *)
(* are the two steps at which a request meets the table.                   *)

Ann == Str(<<"A","n","n">>)
Bob == Str(<<"B","o","b">>)
Digits == <<"1","2","3","4","5","6","7","8","9","0","1","2","3">>
\* "1234567890"[:n], continued with "123" past ten characters
DigitStr(n) == Str(SubSeq(Digits, 1, n))

AuthorBodies ==
    { Member("name", a) \o Member("phone_number", p) :
        a \in {Absent, Str(<<>>), Ann, Bob},
        p \in {Absent, DigitStr(PhoneLen \div 2), DigitStr(PhoneLen)} }

\* Author(name=data['name'], phone_number=data.get('phone_number')) against
\* the committed table: the thread after the constructor
construct_author(table, data) ==
    IF ~HasKey(data, "name")
    THEN [IdleThread EXCEPT !.pc = "done", !.status = 500,
                            !.err = "KeyError", !.msg = "name"]
    ELSE
    LET name  == validate_name(Item(data, "name"),
                               NameTaken(table, Item(data, "name")))
        phone == validate_phone_number(Get(data, "phone_number"))
    IN  IF name.raised
        THEN [IdleThread EXCEPT !.pc = "done", !.name = Item(data, "name"),
                                !.status = 500, !.err = "ValueError",
                                !.msg = name.msg]
        ELSE IF phone.raised
        THEN [IdleThread EXCEPT !.pc = "done", !.name = name.value,
                                !.status = 500, !.err = "ValueError",
                                !.msg = phone.msg]
        ELSE [IdleThread EXCEPT !.pc = "commit", !.name = name.value,
                                !.phone_number = phone.value]

\* a column name without unique=True
UniqueNotEnforced(table, name) == FALSE

\* name = db.Column(db.String, unique=True, nullable=False): whether the
\* INSERT of a row with this name breaks the UNIQUE constraint
UniqueViolated(table, name) == NameTaken(table, name)

\* db.session.add(new_author); db.session.commit();
\* return jsonify(new_author.__dict__), 201
\* gives the table and the thread after the request
commit_author(table, t) ==
    IF UniqueViolated(table, t.name)
    THEN [table |-> table,
          thread |-> [t EXCEPT !.pc = "done", !.phone_number = None,
                               !.status = 500, !.err = "IntegrityError",
                               !.msg = "UNIQUE constraint failed: authors.name"]]
    ELSE [table |-> table \cup {[id |-> NextId(table), name |-> t.name,
                                 phone_number |-> t.phone_number]},
          thread |-> [t EXCEPT !.pc = "done", !.phone_number = None,
                               !.status = 500, !.err = "TypeError",
                               !.msg = "InstanceState"]]

InitAuthors ==
    /\ authors = {}
    /\ posts = {}
    /\ last = Idle
    /\ thr = NoThreads
    /\ vin = NoCall
    /\ vout = NotCalled

\* a thread takes a request and runs the constructor of Author
Construct(t) ==
    /\ thr[t].pc \in {"idle", "done"}
    /\ \E data \in AuthorBodies :
           thr' = [thr EXCEPT ![t] = construct_author(authors, data)]
    /\ UNCHANGED <<authors, posts, last, vin, vout>>

\* the thread adds the author to its session and commits
Commit(t) ==
    /\ thr[t].pc = "commit"
    /\ LET r == commit_author(authors, thr[t])
       IN  /\ \A a \in r.table : a.id <= MaxId
           /\ authors' = r.table
           /\ thr' = [thr EXCEPT ![t] = r.thread]
    /\ UNCHANGED <<posts, last, vin, vout>>

NextAuthors == \E t \in 1..NumThreads : Construct(t) \/ Commit(t)

SpecAuthors == InitAuthors /\ [][NextAuthors]_vars

---------------------------------------------------------------------------
(* The validators of phone_number and content on their own *)

\* lengths at most MaxExtra away from 0 and from n
LengthsNear(n) == {k \in 0..(n + MaxExtra) : k <= MaxExtra \/ k >= n - MaxExtra}

\* s with character i replaced by c
Replace(s, i, c) == [s EXCEPT ![i] = c]

\* digit strings, and the same with one character replaced by a digit
\* outside ASCII or by a character that is no digit
PhoneInputs ==
    {None}
    \cup {DigitStr(n) : n \in LengthsNear(PhoneLen)}
    \cup {Str(Replace(DigitStr(x[1]).s, x[2], x[3])) :
            x \in {y \in LengthsNear(PhoneLen) \X (1..(PhoneLen + MaxExtra))
                            \X (UnicodeDigits \cup OtherChars) : y[2] <= y[1]}}

ContentCalls == {None} \cup {S(n) : n \in LengthsNear(MinContentLen)}

ValidatorCalls ==
    {[fn |-> "validate_phone_number", arg |-> v] : v \in PhoneInputs}
    \cup {[fn |-> "validate_content", arg |-> v] : v \in ContentCalls}

InitValid ==
    /\ authors = {}
    /\ posts = {}
    /\ last = Idle
    /\ thr = NoThreads
    /\ vin \in ValidatorCalls
    /\ vout = NotCalled

CallValidatePhoneNumber ==
    /\ vin.fn = "validate_phone_number"
    /\ vout = NotCalled
    /\ vout' = validate_phone_number(vin.arg)
    /\ UNCHANGED <<authors, posts, last, thr, vin>>

CallValidateContent ==
    /\ vin.fn = "validate_content"
    /\ vout = NotCalled
    /\ vout' = validate_content(vin.arg)
    /\ UNCHANGED <<authors, posts, last, thr, vin>>

NextValid == CallValidatePhoneNumber \/ CallValidateContent

SpecValid == InitValid /\ [][NextValid]_vars

---------------------------------------------------------------------------
(* Properties *)

\* what the client and the server log see of a response
Reply(r) == [status |-> r.status, body |-> r.body, err |-> r.err]

\* C1: when a thread takes a POST /authors request whose name is the name of
\* an author already in the table, the constructor raises the ValueError
\* "Name must be unique.", the request ends without a 201, and the table of
\* authors is left as it was.
C1_DuplicateNameRejected ==
    [][\A t \in 1..NumThreads :
          (/\ thr[t].pc \in {"idle", "done"}
           /\ thr'[t] # thr[t]
           /\ NameTaken(authors, thr'[t].name))
          => (/\ thr'[t].pc = "done"
              /\ thr'[t].err = "ValueError"
              /\ thr'[t].msg = "Name must be unique."
              /\ thr'[t].status # 201
              /\ authors' = authors)]_vars

\* a request was refused for a name that an author in the table has
C1_Witness ==
    \E t \in 1..NumThreads :
        /\ thr[t].pc = "done"
        /\ thr[t].msg = "Name must be unique."
        /\ NameTaken(authors, thr[t].name)

\* C2: in every reachable state no two rows of authors have the same name,
\* also when two requests with one name both pass the lookup of
\* validate_name before either commits.
C2_NamesUnique ==
    \A a \in authors : \A b \in authors : a.name = b.name => a = b

\* two requests with one name passed the lookup; one committed its row and
\* the commit of the other failed
C2_Witness ==
    \E t \in 1..NumThreads :
        /\ thr[t].pc = "done"
        /\ thr[t].err = "IntegrityError"
        /\ NameTaken(authors, thr[t].name)

\* C3: validate_phone_number accepts a string if and only if it is exactly
\* 10 ASCII digits; every other string, the empty one included, is rejected.
C3_PhoneAcceptedIffTenAsciiDigits ==
    (vin.fn = "validate_phone_number" /\ vout # NotCalled /\ IsStr(vin.arg))
    => (~vout.raised
        <=> (/\ Len(vin.arg.s) = 10
             /\ \A i \in 1..Len(vin.arg.s) : vin.arg.s[i] \in AsciiDigits))

\* C4: validate_content rejects every string of length 0 to 249 and accepts
\* every string of length 250 or more; None is accepted.
C4_ContentRejectedIffShorter ==
    (vin.fn = "validate_content" /\ vout # NotCalled)
    => IF IsStr(vin.arg)
       THEN vout.raised <=> Len(vin.arg.s) < 250
       ELSE ~vout.raised

\* the category a POST body gives: null when the key is absent
CategoryOf(data) == Get(data, "category")

\* bodies of POST /posts whose category is not one of the two values
CreateBodiesBadCategory == {d \in CreateBodies : CategoryOf(d) \notin Categories}

\* bodies of PATCH /posts/<id> that assign a category that is not one of the
\* two values
UpdateBodiesBadCategory ==
    {d \in UpdateBodies : HasKey(d, "category") /\ Item(d, "category") \notin Categories}

\* C5 as stated: every POST /posts that omits category or gives another
\* value, and every PATCH /posts/<id> that gives another value, raises a
\* validation error and leaves the stored posts unchanged.
C5_AsStated ==
    /\ \A d \in CreateBodiesBadCategory :
           LET r == create_post(DB, d)
           IN  r.err = "ValueError" /\ r.db.posts = posts
    /\ \A id \in RequestIds : \A d \in UpdateBodiesBadCategory :
           LET r == update_post(DB, id, d)
           IN  r.err = "ValueError" /\ r.db.posts = posts

\* C5 amended: such a request never succeeds and leaves the tables
\* unchanged.  It raises a validation error when it reaches the validators:
\* a POST whose body has a title, a PATCH of a stored post.  A POST without
\* a title raises KeyError before any validator runs, and a PATCH of an id
\* that is not stored answers 404.
C5_CategoryRequired ==
    /\ \A d \in CreateBodiesBadCategory :
           LET r == create_post(DB, d)
           IN  /\ r.db = DB
               /\ r.status = 500
               /\ r.err = IF HasKey(d, "title") THEN "ValueError" ELSE "KeyError"
    /\ \A id \in RequestIds : \A d \in UpdateBodiesBadCategory :
           LET r == update_post(DB, id, d)
           IN  /\ r.db = DB
               /\ IF id \in Ids(posts)
                  THEN r.status = 500 /\ r.err = "ValueError"
                  ELSE r.status = 404

\* a POST /posts passed title and content and was refused at category
C5_Witness ==
    last.op = "POST" /\ last.err = "ValueError" /\ last.n = 2

\* C6: for an id that no stored post has, GET and PATCH answer 404 with the
\* body {"error": "Post not found"} and leave both tables unchanged, whatever
\* the body of the PATCH.
C6_MissingIdIs404 ==
    \A id \in (0..(MaxId + 1)) \ Ids(posts) :
        /\ Reply(get_post(DB, id)) =
               [status |-> 404, body |-> NotFoundBody, err |-> ""]
        /\ get_post(DB, id).db = DB
        /\ \A d \in UpdateBodies :
               /\ Reply(update_post(DB, id, d)) =
                      [status |-> 404, body |-> NotFoundBody, err |-> ""]
               /\ update_post(DB, id, d).db = DB

\* a PATCH of an id that is not stored was answered 404 while other posts
\* are stored
C6_Witness ==
    last.op = "PATCH" /\ last.status = 404 /\ last.body = NotFoundBody
    /\ posts # {}

\* C7: DELETE /posts/<id> answers 204 with an empty body; it removes the
\* post with that id and nothing else, and nothing when no post has the id;
\* a second DELETE of the id answers 204 and changes nothing, and a GET of
\* the id after the DELETE answers 404.
C7_DeleteIdempotent ==
    \A id \in RequestIds :
        LET r1 == delete_post(DB, id)
            r2 == delete_post(r1.db, id)
        IN  /\ Reply(r1) = [status |-> 204, body |-> "", err |-> ""]
            /\ r1.db.authors = authors
            /\ r1.db.posts = {p \in posts : p.id # id}
            /\ Reply(r2) = [status |-> 204, body |-> "", err |-> ""]
            /\ r2.db = r1.db
            /\ get_post(r1.db, id).status = 404

\* a DELETE removed a stored post and another post is still stored
C7_Witness ==
    last.op = "DELETE" /\ last.status = 204 /\ last.n = 1 /\ posts # {}

\* bodies of POST /posts whose four values pass their validators
CreateBodiesValid ==
    {d \in CreateBodies :
        /\ HasKey(d, "title")
        /\ \A k \in PostKeys : ~ValidatePostAttr(k, Get(d, k)).raised}

\* C8: a POST /posts whose values all pass validation answers 201, adds
\* exactly one post, under an id no other stored post has, and a GET of that
\* id then answers 200 with the submitted values, absent ones as null.
C8_CreateThenGet ==
    \A d \in CreateBodiesValid :
        LET r == create_post(DB, d)
        IN  /\ r.status = 201
            /\ \E row \in r.db.posts :
                   /\ r.db.posts = posts \cup {row}
                   /\ row.id \notin Ids(posts)
                   /\ \A k \in PostKeys : row[k] = Get(d, k)
                   /\ get_post(r.db, row.id).status = 200

\* C9: when a validator raises during PATCH /posts/<id> of a stored post,
\* at whatever item of the body, the tables are as before the request and a
\* GET of the id is answered as before.
C9_UpdateAllOrNothing ==
    \A id \in Ids(posts) : \A d \in UpdateBodies :
        LET r == update_post(DB, id, d)
        IN  r.err = "ValueError"
            => /\ r.db = DB
               /\ Reply(get_post(r.db, id)) = Reply(get_post(DB, id))

\* a PATCH assigned one item and raised at the next
C9_Witness ==
    last.op = "PATCH" /\ last.err = "ValueError" /\ last.n >= 1

\* C10: every stored post has a non-empty title that contains one of "Won't
\* Believe", "Secret", "Top", "Guess", a category that is "Fiction" or
\* "Non-Fiction", and a summary that is null or at most 250 characters.
C10_StoredPostsValid ==
    \A p \in posts :
        /\ IsStr(p.title) /\ Len(p.title.s) > 0
        /\ \E k \in 1..4 : Contains(p.title.s, Clickbait[k])
        /\ p.category \in {Fiction, NonFiction}
        /\ (p.summary = None \/ (IsStr(p.summary) /\ Len(p.summary.s) <= 250))

\* a PATCH was committed and a stored post has a summary of 250 characters
C10_Witness ==
    /\ last.op = "PATCH" /\ last.err = "TypeError"
    /\ \E p \in posts : IsStr(p.summary) /\ Len(p.summary.s) = 250

====
